---- MODULE Spec2Model ----
(***************************************************************************)
(* Model of src/main.ts of setup-gcloud: the run() coordinator and its     *)
(* validateSubscription() pre-flight check.                                *)
(*                                                                         *)
(* Strings that the code inspects character by character (trim, split,     *)
(* comparison with 'latest') are sequences of one-character strings.       *)
(* Every call the coordinator makes to a collaborator (axios, @actions/    *)
(* core, tool-cache, setup-cloud-sdk) is appended to `calls` in program    *)
(* order, with its arguments, its result and whether it returned (ok) or   *)
(* threw.  The collaborators' answers are chosen nondeterministically.     *)
(***************************************************************************)
EXTENDS Integers, Sequences, FiniteSets, TLC

VARIABLES
  inputs,       \* the step's declarative inputs as the runner holds them (raw)
  credsPath,    \* process.env.GOOGLE_GHA_CREDS_PATH ("" when unset)
  pc,           \* position of run()
  skipInstall,  \* const skipInstall (main.ts:73)
  version,      \* let version (main.ts:74)
  components,   \* const components (main.ts:75)
  projectId,    \* const projectId (main.ts:76)
  cache,        \* const cache (main.ts:77)
  calls,        \* every collaborator call so far, in program order
  jobEnv,       \* variables published with core.exportVariable (job-wide)
  processEnv,   \* variables assigned on process.env only (this process)
  searchPath,   \* directories added with core.addPath
  outputs,      \* step outputs set with core.setOutput
  failure,      \* message given to core.setFailed ("" when none)
  exitCode,     \* -1 while running normally, n after process.exit(n)
  previous      \* what the runs before this one on the same runner did

vars == << inputs, credsPath, pc, skipInstall, version, components, projectId,
           cache, calls, jobEnv, processEnv, searchPath, outputs, failure,
           exitCode, previous >>

-----------------------------------------------------------------------------
(* Strings *)

Latest == << "l", "a", "t", "e", "s", "t" >>

AnyVersion == << ">", " ", "0", ".", "0", ".", "0" >>

Undefined == << "undefined" >>

Whitespace == { " " }

RECURSIVE TrimStart(_)
TrimStart(s) ==
  IF s # << >> /\ Head(s) \in Whitespace THEN TrimStart(Tail(s)) ELSE s

RECURSIVE TrimEnd(_)
TrimEnd(s) ==
  IF s # << >> /\ s[Len(s)] \in Whitespace
  THEN TrimEnd(SubSeq(s, 1, Len(s) - 1))
  ELSE s

Trim(s) == TrimEnd(TrimStart(s))

\* String.prototype.split(','): the pieces between the separators, empty
\* pieces included; the empty string splits into one empty piece.
RECURSIVE SplitFrom(_, _, _)
SplitFrom(s, sep, cur) ==
  IF s = << >> THEN << cur >>
  ELSE IF Head(s) = sep THEN << cur >> \o SplitFrom(Tail(s), sep, << >>)
  ELSE SplitFrom(Tail(s), sep, Append(cur, Head(s)))

Split(s, sep) == SplitFrom(s, sep, << >>)

MapTrim(list) == [ i \in DOMAIN list |-> Trim(list[i]) ]

\* core.getInput(name): the raw input with surrounding whitespace removed
\* (trimWhitespace defaults to true).
GetInput(name) == Trim(inputs[name])

\* presence(s): the trimmed string, or undefined when nothing is left.
Presence(s) == IF Trim(s) = << >> THEN Undefined ELSE Trim(s)

TrueValues == { << "1" >>, << "t" >>, << "t", "r", "u", "e" >> }

FalseValues == { << "0" >>, << "f" >>, << "f", "a", "l", "s", "e" >> }

\* parseBoolean(s): '' is the default (false); a value that is neither a
\* true nor a false word throws.
ParseBooleanThrows(s) ==
  Trim(s) # << >> /\ Trim(s) \notin (TrueValues \cup FalseValues)

ParseBoolean(s) == Trim(s) \in TrueValues

\* toCommandValue(v) of @actions/core: undefined is written as ''.
ToCommandValue(v) == IF v = Undefined THEN << >> ELSE v

\* path.join(dir, 'bin')
JoinBin(dir) == << dir, "bin" >>

-----------------------------------------------------------------------------
(* The inputs and the environment the model ranges over *)

Pinned == << "1", ".", "2", ".", "3" >>

VersionInputs ==
  { << >>, << " " >>, Latest, << " " >> \o Latest, Pinned, Pinned \o << " " >> }

BooleanInputs == { << >>, << "t", "r", "u", "e" >>, << "f" >>, << "x" >> }

CacheInputs == { << >>, << "t", "r", "u", "e" >>, << "x" >> }

ComponentInputs ==
  { << >>,
    << " " >>,
    << " ", "a", ",", " ", "b", " ", ",", "c" >>,
    << "a", ",", ",", "b" >>,
    << "a", "," >> }

ProjectInputs == { << >>, << "p" >> }

CredsPaths == { "", "/creds.json" }

SubscriptionResponses == { "200", "403", "500", "timeout" }

ResolvedVersions == { << "5", ".", "0" >>, << "6", ".", "0" >> }

ToolPaths == { "", "/opt/hostedtoolcache/gcloud" }

AppVersion == "appVersion"

-----------------------------------------------------------------------------
(* The call record *)

Call(op, args, res, ok) == [ op |-> op, args |-> args, res |-> res, ok |-> ok ]

Void(op, args) == Call(op, args, "void", TRUE)

Thrown(op, args) == Call(op, args, "error", FALSE)

CallsOf(op) == SelectSeq(calls, LAMBDA c : c.op = op)

Count(op) == Len(CallsOf(op))

Logged(op, msg) ==
  Len(SelectSeq(calls, LAMBDA c : c.op = op /\ c.args = << msg >>))

-----------------------------------------------------------------------------
(* The decisions of the code *)

\* Faulty variant of IsRejected: the 403 test is lost, every failure is "not reachable".
IsRejectedNever(resp) == FALSE

\* main.ts:48  isAxiosError(error) && error.response?.status === 403
IsRejected(resp) == resp = "403"

\* Faulty variant of IgnoresVersion: the comparison with 'latest' is dropped.
IgnoresVersionWhenSet(v) == v # Undefined

\* main.ts:81  version && version !== 'latest'
IgnoresVersion(v) == v # Undefined /\ v # Latest

\* Faulty variant of DefaultVersion: an unset version defaults to 'latest'.
DefaultVersionLatest(v) == IF v = Undefined THEN Latest ELSE v

\* main.ts:96-99  if (!version) version = '> 0.0.0'
DefaultVersion(v) == IF v = Undefined THEN AnyVersion ELSE v

\* Faulty variant of IsLatest: 'latest' is passed on as if it were a constraint.
IsLatestNever(v) == FALSE

\* main.ts:100  version === 'latest'
IsLatest(v) == v = Latest

\* Faulty variant of CacheHit: the result of the probe is not looked at.
CacheHitAlways(toolPath) == TRUE

\* main.ts:108  toolPath !== ''
CacheHit(toolPath) == toolPath # ""

\* main.ts:118  components.split(',').map((comp) => comp.trim())
ComponentList(c) == MapTrim(Split(c, ","))

\* Faulty variant of HasCredFile: the credentials file is not looked at.
HasCredFileNever(c) == FALSE

\* main.ts:123  if (credFile)
HasCredFile(c) == c # ""

\* Faulty variant of NotAuthenticated: the negation is lost.
NotAuthenticatedInverted(authed) == authed = "true"

\* Faulty variant of NotAuthenticated: no warning when the installation was
\* skipped.
NotAuthenticatedUnlessSkipped(authed) == authed # "true" /\ ~skipInstall

\* main.ts:134  if (!authed)
NotAuthenticated(authed) == authed # "true"

-----------------------------------------------------------------------------
(* Initial state *)

Init ==
  /\ inputs \in [ skip_install : BooleanInputs,
                  version : VersionInputs,
                  install_components : ComponentInputs,
                  project_id : ProjectInputs,
                  cache : CacheInputs ]
  /\ credsPath \in CredsPaths
  /\ pc = "validateSubscription"
  /\ skipInstall = FALSE
  /\ version = Undefined
  /\ components = << >>
  /\ projectId = << >>
  /\ cache = FALSE
  /\ calls = << >>
  /\ jobEnv = { }
  /\ processEnv = { }
  /\ searchPath = << >>
  /\ outputs = << >>
  /\ failure = ""
  /\ exitCode = -1
  /\ previous = << >>

\* Faulty variant of Catch: the error is caught but the failure is not
\* reported.
CatchSilently(trace, source) ==
  /\ calls' = trace
  /\ failure' = failure
  /\ pc' = "done"

\* main.ts:150-153  the catch block of run(): trace is the calls made up to
\* and including the one that threw, source names the error that was caught.
Catch(trace, source) ==
  /\ calls' = Append(trace, Void("core.setFailed", << source >>))
  /\ failure' = source
  /\ pc' = "done"

-----------------------------------------------------------------------------
(* Actions *)

\* Faulty variant of ValidateSubscription: after a failed check that is not
\* a 403 the environment is not exported.
ValidateSubscriptionSkipsExport ==
  /\ pc = "validateSubscription"
  /\ \E resp \in SubscriptionResponses :
       LET get == Call("axios.get", << >>, resp, resp = "200") IN
       IF resp = "200"
       THEN /\ calls' = Append(calls, get)
            /\ pc' = "export"
            /\ exitCode' = exitCode
       ELSE IF IsRejected(resp)
       THEN /\ calls' = calls \o << get,
                                    Void("core.error", << "subscription-not-valid" >>),
                                    Void("process.exit", << 1 >>) >>
            /\ pc' = "exited"
            /\ exitCode' = 1
       ELSE /\ calls' = calls \o << get,
                                    Void("core.info", << "api-not-reachable" >>) >>
            /\ pc' = "inputs"
            /\ exitCode' = exitCode
  /\ UNCHANGED << inputs, credsPath, skipInstall, version, components,
                  projectId, cache, jobEnv, processEnv, searchPath, outputs,
                  failure >>

\* main.ts:42-55, called at main.ts:58
ValidateSubscription ==
  /\ pc = "validateSubscription"
  /\ \E resp \in SubscriptionResponses :
       LET get == Call("axios.get", << >>, resp, resp = "200") IN
       IF resp = "200"
       THEN /\ calls' = Append(calls, get)
            /\ pc' = "export"
            /\ exitCode' = exitCode
       ELSE IF IsRejected(resp)
       THEN /\ calls' = calls \o << get,
                                    Void("core.error", << "subscription-not-valid" >>),
                                    Void("process.exit", << 1 >>) >>
            /\ pc' = "exited"
            /\ exitCode' = 1
       ELSE /\ calls' = calls \o << get,
                                    Void("core.info", << "api-not-reachable" >>) >>
            /\ pc' = "export"
            /\ exitCode' = exitCode
  /\ UNCHANGED << inputs, credsPath, skipInstall, version, components,
                  projectId, cache, jobEnv, processEnv, searchPath, outputs,
                  failure >>

\* Faulty variant of ExportEnvironment: the metrics variables are assigned on
\* process.env instead of being exported.
ExportEnvironmentProcessOnly ==
  /\ pc = "export"
  /\ \E pinnedToHead \in BOOLEAN :
       calls' = calls \o
         << Void("process.env",
                 << "CLOUDSDK_METRICS_ENVIRONMENT", "github-actions-setup-gcloud" >>),
            Void("process.env",
                 << "CLOUDSDK_METRICS_ENVIRONMENT_VERSION", AppVersion >>),
            Void("process.env", << "CLOUDSDK_CORE_DISABLE_PROMPTS", "1" >>),
            Call("isPinnedToHead", << >>, pinnedToHead, TRUE) >>
         \o (IF pinnedToHead
             THEN << Void("core.warning", << "pinned-to-head" >>) >>
             ELSE << >>)
  /\ jobEnv' = jobEnv
  /\ processEnv' = processEnv \cup
       { << "CLOUDSDK_METRICS_ENVIRONMENT", "github-actions-setup-gcloud" >>,
         << "CLOUDSDK_METRICS_ENVIRONMENT_VERSION", AppVersion >>,
         << "CLOUDSDK_CORE_DISABLE_PROMPTS", "1" >> }
  /\ pc' = "inputs"
  /\ UNCHANGED << inputs, credsPath, skipInstall, version, components,
                  projectId, cache, searchPath, outputs, failure, exitCode >>

\* main.ts:62-70
ExportEnvironment ==
  /\ pc = "export"
  /\ \E pinnedToHead \in BOOLEAN :
       calls' = calls \o
         << Void("core.exportVariable",
                 << "CLOUDSDK_METRICS_ENVIRONMENT", "github-actions-setup-gcloud" >>),
            Void("core.exportVariable",
                 << "CLOUDSDK_METRICS_ENVIRONMENT_VERSION", AppVersion >>),
            Void("process.env", << "CLOUDSDK_CORE_DISABLE_PROMPTS", "1" >>),
            Call("isPinnedToHead", << >>, pinnedToHead, TRUE) >>
         \o (IF pinnedToHead
             THEN << Void("core.warning", << "pinned-to-head" >>) >>
             ELSE << >>)
  /\ jobEnv' = jobEnv \cup
       { << "CLOUDSDK_METRICS_ENVIRONMENT", "github-actions-setup-gcloud" >>,
         << "CLOUDSDK_METRICS_ENVIRONMENT_VERSION", AppVersion >> }
  /\ processEnv' = processEnv \cup { << "CLOUDSDK_CORE_DISABLE_PROMPTS", "1" >> }
  /\ pc' = "inputs"
  /\ UNCHANGED << inputs, credsPath, skipInstall, version, components,
                  projectId, cache, searchPath, outputs, failure, exitCode >>

Read(name) == Call("core.getInput", << name >>, GetInput(name), TRUE)

\* main.ts:73-77
ReadInputs ==
  /\ pc = "inputs"
  /\ IF ParseBooleanThrows(GetInput("skip_install"))
     THEN /\ Catch(Append(calls, Read("skip_install")), "parseBoolean")
          /\ UNCHANGED << skipInstall, version, components, projectId, cache >>
     ELSE LET all == calls \o << Read("skip_install"), Read("version"),
                                 Read("install_components"), Read("project_id"),
                                 Read("cache") >>
          IN  /\ skipInstall' = ParseBoolean(GetInput("skip_install"))
              /\ version' = Presence(GetInput("version"))
              /\ components' = GetInput("install_components")
              /\ projectId' = GetInput("project_id")
              /\ IF ParseBooleanThrows(GetInput("cache"))
                 THEN /\ Catch(all, "parseBoolean")
                      /\ cache' = cache
                 ELSE /\ cache' = ParseBoolean(GetInput("cache"))
                      /\ calls' = all
                      /\ failure' = failure
                      /\ pc' = "branch"
  /\ UNCHANGED << inputs, credsPath, jobEnv, processEnv, searchPath, outputs,
                  exitCode >>

\* Faulty variant of SkipInstall: the else is lost, the run falls through to the
\* installation.
SkipInstallFallsThrough ==
  /\ pc = "branch"
  /\ skipInstall
  /\ calls' = calls
       \o << Void("core.info", << "skipping-installation" >>) >>
       \o (IF IgnoresVersion(version)
           THEN << Void("core.warning", << "ignoring-version" >>) >>
           ELSE << >>)
       \o (IF components # << >>
           THEN << Void("core.warning", << "components-may-fail" >>) >>
           ELSE << >>)
  /\ pc' = "install"
  /\ UNCHANGED << inputs, credsPath, skipInstall, version, components,
                  projectId, cache, jobEnv, processEnv, searchPath, outputs,
                  failure, exitCode >>

\* main.ts:79-90  the skip_install branch
SkipInstall ==
  /\ pc = "branch"
  /\ skipInstall
  /\ calls' = calls
       \o << Void("core.info", << "skipping-installation" >>) >>
       \o (IF IgnoresVersion(version)
           THEN << Void("core.warning", << "ignoring-version" >>) >>
           ELSE << >>)
       \o (IF components # << >>
           THEN << Void("core.warning", << "components-may-fail" >>) >>
           ELSE << >>)
  /\ pc' = "components"
  /\ UNCHANGED << inputs, credsPath, skipInstall, version, components,
                  projectId, cache, jobEnv, processEnv, searchPath, outputs,
                  failure, exitCode >>

\* main.ts:91-104  defaulting and latest-resolution
ResolveVersion ==
  /\ pc = "branch"
  /\ ~skipInstall
  /\ LET defaulted == DefaultVersion(version)
         debug == IF version = Undefined
                  THEN << Void("core.debug", << "version-unset" >>) >>
                  ELSE << >>
     IN  IF IsLatest(defaulted)
         THEN LET before == calls \o debug
                              \o << Void("core.debug", << "resolving-latest" >>) >>
              IN  \/ \E v \in ResolvedVersions :
                       /\ version' = v
                       /\ calls' = before \o
                            << Call("bestVersion", << AnyVersion >>, v, TRUE),
                               Void("core.debug", << "resolved-latest" >>) >>
                       /\ pc' = "install"
                       /\ failure' = failure
                  \/ /\ Catch(Append(before, Thrown("bestVersion", << AnyVersion >>)),
                              "bestVersion")
                     /\ version' = defaulted
         ELSE /\ version' = defaulted
              /\ calls' = calls \o debug
              /\ pc' = "install"
              /\ failure' = failure
  /\ UNCHANGED << inputs, credsPath, skipInstall, components, projectId,
                  cache, jobEnv, processEnv, searchPath, outputs, exitCode >>

\* main.ts:106-113  cache probe, then addPath on a hit or install on a miss
InstallGcloud ==
  /\ pc = "install"
  /\ \E toolPath \in ToolPaths :
       LET find == Call("toolCache.find", << "gcloud", version >>, toolPath, TRUE) IN
       IF CacheHit(toolPath)
       THEN /\ calls' = calls \o
                 << find, Void("core.addPath", << JoinBin(toolPath) >>) >>
            /\ searchPath' = Append(searchPath, JoinBin(toolPath))
            /\ pc' = "components"
            /\ failure' = failure
       ELSE LET before == calls \o
                   << find, Void("core.debug", << "no-matching-version" >>) >>
            IN  /\ searchPath' = searchPath
                /\ \/ /\ calls' = Append(before,
                                         Void("installGcloudSDK", << version, cache >>))
                      /\ pc' = "components"
                      /\ failure' = failure
                   \/ Catch(Append(before,
                                   Thrown("installGcloudSDK", << version, cache >>)),
                            "installGcloudSDK")
  /\ UNCHANGED << inputs, credsPath, skipInstall, version, components,
                  projectId, cache, jobEnv, processEnv, outputs, exitCode >>

\* Faulty variant of InstallComponents: the components are installed only
\* when gcloud itself was installed by this run.
InstallComponentsUnlessSkipped ==
  /\ pc = "components"
  /\ IF components # << >> /\ ~skipInstall
     THEN \/ /\ calls' = Append(calls,
                   Void("installComponent", << ComponentList(components) >>))
             /\ pc' = "auth"
             /\ failure' = failure
          \/ Catch(Append(calls,
                          Thrown("installComponent", << ComponentList(components) >>)),
                   "installComponent")
     ELSE /\ calls' = calls
          /\ pc' = "auth"
          /\ failure' = failure
  /\ UNCHANGED << inputs, credsPath, skipInstall, version, components,
                  projectId, cache, jobEnv, processEnv, searchPath, outputs,
                  exitCode >>

\* Faulty variant of InstallComponents: a failed installation is tried a
\* second time.
InstallComponentsRetrying ==
  /\ pc = "components"
  /\ IF components # << >>
     THEN \/ /\ calls' = Append(calls,
                   Void("installComponent", << ComponentList(components) >>))
             /\ pc' = "auth"
             /\ failure' = failure
          \/ /\ calls' = calls \o
                  << Thrown("installComponent", << ComponentList(components) >>),
                     Void("installComponent", << ComponentList(components) >>) >>
             /\ pc' = "auth"
             /\ failure' = failure
     ELSE /\ calls' = calls
          /\ pc' = "auth"
          /\ failure' = failure
  /\ UNCHANGED << inputs, credsPath, skipInstall, version, components,
                  projectId, cache, jobEnv, processEnv, searchPath, outputs,
                  exitCode >>

\* main.ts:116-119
InstallComponents ==
  /\ pc = "components"
  /\ IF components # << >>
     THEN \/ /\ calls' = Append(calls,
                   Void("installComponent", << ComponentList(components) >>))
             /\ pc' = "auth"
             /\ failure' = failure
          \/ Catch(Append(calls,
                          Thrown("installComponent", << ComponentList(components) >>)),
                   "installComponent")
     ELSE /\ calls' = calls
          /\ pc' = "auth"
          /\ failure' = failure
  /\ UNCHANGED << inputs, credsPath, skipInstall, version, components,
                  projectId, cache, jobEnv, processEnv, searchPath, outputs,
                  exitCode >>

\* Faulty variant of Authenticate: the project is configured before the
\* authentication instead of after it.
AuthenticateAfterProject ==
  /\ pc = "auth"
  /\ HasCredFile(credsPath)
  /\ calls' = calls
       \o (IF projectId # << >>
           THEN << Void("setProject", << projectId >>),
                   Void("core.info", << "project-set" >>) >>
           ELSE << >>)
       \o << Void("authenticateGcloudSDK", << credsPath >>),
             Void("core.info", << "authenticated" >>) >>
  /\ pc' = "output"
  /\ UNCHANGED << inputs, credsPath, skipInstall, version, components,
                  projectId, cache, jobEnv, processEnv, searchPath, outputs,
                  failure, exitCode >>

\* main.ts:122-125  authentication with the credentials file
Authenticate ==
  /\ pc = "auth"
  /\ HasCredFile(credsPath)
  /\ \/ /\ calls' = calls \o
             << Void("authenticateGcloudSDK", << credsPath >>),
                Void("core.info", << "authenticated" >>) >>
        /\ pc' = "project"
        /\ failure' = failure
     \/ Catch(Append(calls, Thrown("authenticateGcloudSDK", << credsPath >>)),
              "authenticateGcloudSDK")
  /\ UNCHANGED << inputs, credsPath, skipInstall, version, components,
                  projectId, cache, jobEnv, processEnv, searchPath, outputs,
                  exitCode >>

\* main.ts:126-141  authentication-status check without a credentials file
CheckAuthenticated ==
  /\ pc = "auth"
  /\ ~HasCredFile(credsPath)
  /\ \E answer \in { "true", "false", "error" } :
       LET authed == IF answer = "error" THEN "false" ELSE answer IN
       calls' = calls
         \o << Call("isAuthenticated", << >>, answer, answer # "error") >>
         \o (IF NotAuthenticated(authed)
             THEN << Void("core.warning", << "not-authenticated" >>) >>
             ELSE << >>)
  /\ pc' = "project"
  /\ UNCHANGED << inputs, credsPath, skipInstall, version, components,
                  projectId, cache, jobEnv, processEnv, searchPath, outputs,
                  failure, exitCode >>

\* Faulty variant of ConfigureProject: the project is configured only in
\* the credentials-file branch.
ConfigureProjectOnlyWithCredFile ==
  /\ pc = "project"
  /\ IF projectId # << >> /\ HasCredFile(credsPath)
     THEN \/ /\ calls' = calls \o
                  << Void("setProject", << projectId >>),
                     Void("core.info", << "project-set" >>) >>
             /\ pc' = "output"
             /\ failure' = failure
          \/ Catch(Append(calls, Thrown("setProject", << projectId >>)),
                   "setProject")
     ELSE /\ calls' = calls
          /\ pc' = "output"
          /\ failure' = failure
  /\ UNCHANGED << inputs, credsPath, skipInstall, version, components,
                  projectId, cache, jobEnv, processEnv, searchPath, outputs,
                  exitCode >>

\* Faulty variant of ConfigureProject: a failure of setProject is turned
\* into a warning and the run goes on.
ConfigureProjectSwallowsError ==
  /\ pc = "project"
  /\ IF projectId # << >>
     THEN \/ calls' = calls \o
               << Void("setProject", << projectId >>),
                  Void("core.info", << "project-set" >>) >>
          \/ calls' = calls \o
               << Thrown("setProject", << projectId >>),
                  Void("core.warning", << "project-not-set" >>) >>
     ELSE calls' = calls
  /\ pc' = "output"
  /\ UNCHANGED << inputs, credsPath, skipInstall, version, components,
                  projectId, cache, jobEnv, processEnv, searchPath, outputs,
                  failure, exitCode >>

\* main.ts:143-147
ConfigureProject ==
  /\ pc = "project"
  /\ IF projectId # << >>
     THEN \/ /\ calls' = calls \o
                  << Void("setProject", << projectId >>),
                     Void("core.info", << "project-set" >>) >>
             /\ pc' = "output"
             /\ failure' = failure
          \/ Catch(Append(calls, Thrown("setProject", << projectId >>)),
                   "setProject")
     ELSE /\ calls' = calls
          /\ pc' = "output"
          /\ failure' = failure
  /\ UNCHANGED << inputs, credsPath, skipInstall, version, components,
                  projectId, cache, jobEnv, processEnv, searchPath, outputs,
                  exitCode >>

\* Faulty variant of SetOutput: the version input is reported instead of the
\* resolved version.
SetOutputVersionInput ==
  /\ pc = "output"
  /\ calls' = Append(calls,
       Void("core.setOutput", << "version", Presence(GetInput("version")) >>))
  /\ outputs' = [ k \in DOMAIN outputs \cup { "version" } |->
                    IF k = "version"
                    THEN ToCommandValue(Presence(GetInput("version")))
                    ELSE outputs[k] ]
  /\ pc' = "done"
  /\ UNCHANGED << inputs, credsPath, skipInstall, version, components,
                  projectId, cache, jobEnv, processEnv, searchPath, failure,
                  exitCode >>

\* main.ts:149
SetOutput ==
  /\ pc = "output"
  /\ calls' = Append(calls, Void("core.setOutput", << "version", version >>))
  /\ outputs' = [ k \in DOMAIN outputs \cup { "version" } |->
                    IF k = "version" THEN ToCommandValue(version) ELSE outputs[k] ]
  /\ pc' = "done"
  /\ UNCHANGED << inputs, credsPath, skipInstall, version, components,
                  projectId, cache, jobEnv, processEnv, searchPath, failure,
                  exitCode >>

\* one run of the step: main.ts:156-158 calls run() once per process
Next ==
  \/ ValidateSubscription /\ UNCHANGED previous
  \/ ExportEnvironment /\ UNCHANGED previous
  \/ ReadInputs /\ UNCHANGED previous
  \/ SkipInstall /\ UNCHANGED previous
  \/ ResolveVersion /\ UNCHANGED previous
  \/ InstallGcloud /\ UNCHANGED previous
  \/ InstallComponents /\ UNCHANGED previous
  \/ Authenticate /\ UNCHANGED previous
  \/ CheckAuthenticated /\ UNCHANGED previous
  \/ ConfigureProject /\ UNCHANGED previous
  \/ SetOutput /\ UNCHANGED previous

Spec == Init /\ [][Next]_vars

-----------------------------------------------------------------------------
(* Two runs of the step, one after the other *)

PairSkipInputs == { << >>, << "t", "r", "u", "e" >> }

\* main.ts:156-158  the step is run again in a fresh process, with the same
\* inputs except possibly skip_install, the same credentials variable and a
\* fresh job environment; what the first run did is kept for comparison.
Restart ==
  /\ pc = "done"
  /\ Len(previous) = 0
  /\ previous' = << [ inputs |-> inputs, calls |-> calls, outputs |-> outputs,
                      failure |-> failure, searchPath |-> searchPath ] >>
  /\ \E s \in PairSkipInputs : inputs' = [ inputs EXCEPT !.skip_install = s ]
  /\ pc' = "validateSubscription"
  /\ skipInstall' = FALSE
  /\ version' = Undefined
  /\ components' = << >>
  /\ projectId' = << >>
  /\ cache' = FALSE
  /\ calls' = << >>
  /\ jobEnv' = { }
  /\ processEnv' = { }
  /\ searchPath' = << >>
  /\ outputs' = << >>
  /\ failure' = ""
  /\ exitCode' = -1
  /\ UNCHANGED credsPath

InitPair ==
  /\ Init
  /\ inputs.skip_install \in PairSkipInputs
  /\ inputs.version \in { Latest, Pinned }
  /\ inputs.install_components \in { << >>, << "a", "," >> }
  /\ inputs.cache = << >>

NextPair ==
  \/ Next
  \/ Restart

SpecPair == InitPair /\ [][NextPair]_vars

-----------------------------------------------------------------------------
(* What a run was given and how far it got *)

SkipInstallInput ==
  /\ ~ParseBooleanThrows(GetInput("skip_install"))
  /\ ParseBoolean(GetInput("skip_install"))

InputsParse ==
  /\ ~ParseBooleanThrows(GetInput("skip_install"))
  /\ ~ParseBooleanThrows(GetInput("cache"))

InstallInput == InputsParse /\ ~SkipInstallInput

CacheInput == ParseBoolean(GetInput("cache"))

VersionInput == Presence(GetInput("version"))

\* the entry gate or the version resolution has run (and may have failed)
PastBranch ==
  /\ InputsParse
  /\ pc \in { "install", "components", "auth", "project", "output", "done" }

\* the cache probe / install step has run (and may have failed)
PastInstall ==
  /\ PastBranch
  /\ pc # "install"
  /\ failure # "bestVersion"

\* the component step has run (and may have failed)
PastComponents ==
  \/ pc \in { "auth", "project", "output" }
  \/ pc = "done" /\ failure \in { "", "installComponent",
                                  "authenticateGcloudSDK", "setProject" }

\* the authentication step has run (and may have failed)
PastAuth ==
  \/ pc \in { "project", "output" }
  \/ pc = "done" /\ failure \in { "", "authenticateGcloudSDK", "setProject" }

Completed == pc = "done" /\ failure = ""

VersionOutputAbsent ==
  "version" \in DOMAIN outputs => outputs["version"] = << >>

IgnoredVersionWarnings == Logged("core.warning", "ignoring-version")

NotAuthenticatedWarnings == Logged("core.warning", "not-authenticated")

-----------------------------------------------------------------------------
(* Claims *)

\* C1: in a run with skip_install = true, whatever the other inputs are,
\* bestVersion, toolCache.find, core.addPath and installGcloudSDK are never
\* invoked.
C1_SkipInstallInvokesNoInstallOperation ==
  SkipInstallInput =>
    /\ Count("bestVersion") = 0
    /\ Count("toolCache.find") = 0
    /\ Count("core.addPath") = 0
    /\ Count("installGcloudSDK") = 0
    /\ searchPath = << >>

C1_Witness ==
  /\ SkipInstallInput
  /\ Completed
  /\ VersionInput = Pinned
  /\ CacheInput
  /\ components # << >>

\* C2: a run with skip_install = true that completes without failure leaves
\* the 'version' output absent (unset or empty), whatever version was supplied.
C2_SkipInstallOutputAbsent ==
  (SkipInstallInput /\ Completed) => VersionOutputAbsent

\* What C3 asks of a run in which 'latest' was supplied: bestVersion was
\* invoked exactly once, and when it returned, its result and never 'latest'
\* is what the cache probe, install and the output were given.
LatestResolved ==
  /\ Count("bestVersion") = 1
  /\ LET best == CallsOf("bestVersion")[1] IN
       IF best.ok
       THEN /\ \A i \in DOMAIN calls :
                 /\ calls[i].op = "toolCache.find"
                      => calls[i].args[2] = best.res /\ calls[i].args[2] # Latest
                 /\ calls[i].op = "installGcloudSDK"
                      => calls[i].args[1] = best.res /\ calls[i].args[1] # Latest
                 /\ calls[i].op = "core.setOutput"
                      => calls[i].args[2] = best.res /\ calls[i].args[2] # Latest
            /\ PastInstall => Count("toolCache.find") = 1
            /\ Completed => outputs["version"] = best.res
       ELSE /\ Count("toolCache.find") = 0
            /\ Count("installGcloudSDK") = 0
            /\ Count("core.setOutput") = 0

\* C3 as stated: for all step inputs with version = "latest", bestVersion is
\* invoked exactly once and its result is used for probe, install and output.
C3_LatestAlwaysResolved ==
  (PastBranch /\ VersionInput = Latest) => LatestResolved

\* C3 as amended: for all step inputs with skip_install = false and version =
\* "latest", bestVersion is invoked exactly once and its result, never the
\* literal "latest", is used for probe, install and output.
C3_LatestResolvedWhenInstalling ==
  (PastBranch /\ InstallInput /\ VersionInput = Latest) => LatestResolved

C3_Witness ==
  /\ InstallInput
  /\ VersionInput = Latest
  /\ Completed
  /\ Count("bestVersion") = 1
  /\ Count("installGcloudSDK") = 1

\* C4: in a run that reaches the cache probe, install is invoked iff the probe
\* misses, then exactly once with the resolved version and the cache flag; on
\* a hit install is not invoked and the tool's bin directory is added to the
\* search path exactly once.
C4_InstallIffCacheMiss ==
  Count("toolCache.find") > 0 =>
    /\ Count("toolCache.find") = 1
    /\ InstallInput
    /\ LET probe == CallsOf("toolCache.find")[1] IN
         /\ probe.args = << "gcloud", version >>
         /\ Count("installGcloudSDK") = (IF probe.res = "" THEN 1 ELSE 0)
         /\ probe.res = "" =>
              CallsOf("installGcloudSDK")[1].args = << version, CacheInput >>
         /\ probe.res # "" =>
              /\ Count("core.addPath") = 1
              /\ CallsOf("core.addPath")[1].args = << JoinBin(probe.res) >>
              /\ searchPath = << JoinBin(probe.res) >>

C4_WitnessHit ==
  /\ Completed
  /\ Count("toolCache.find") = 1
  /\ CallsOf("toolCache.find")[1].res # ""
  /\ Count("core.addPath") = 1

C4_WitnessMiss ==
  /\ Completed
  /\ Count("toolCache.find") = 1
  /\ CallsOf("toolCache.find")[1].res = ""
  /\ Count("installGcloudSDK") = 1
  /\ CacheInput

\* C5: with GOOGLE_GHA_CREDS_PATH set, once the authentication step has run,
\* authenticateGcloudSDK was invoked exactly once with that path and
\* isAuthenticated was not queried; if it threw, the run is a reported failure
\* with no 'version' output, no setProject and no warning in its place.
C5_CredFileAuthenticationIsFatal ==
  (PastAuth /\ credsPath # "") =>
    /\ Count("authenticateGcloudSDK") = 1
    /\ CallsOf("authenticateGcloudSDK")[1].args = << credsPath >>
    /\ Count("isAuthenticated") = 0
    /\ ~CallsOf("authenticateGcloudSDK")[1].ok =>
         /\ pc = "done"
         /\ failure = "authenticateGcloudSDK"
         /\ Count("core.setFailed") = 1
         /\ "version" \notin DOMAIN outputs
         /\ Count("core.setOutput") = 0
         /\ Count("setProject") = 0
         /\ NotAuthenticatedWarnings = 0

C5_Witness ==
  /\ credsPath # ""
  /\ pc = "done"
  /\ failure = "authenticateGcloudSDK"
  /\ projectId # << >>
  /\ Count("authenticateGcloudSDK") = 1

\* C6: with GOOGLE_GHA_CREDS_PATH unset, once the authentication step has run,
\* isAuthenticated was queried exactly once; an error or a false answer gave
\* exactly one 'not authenticated' warning and a true answer none; the step
\* reported no failure and the run went on to the project configuration.
C6_StatusCheckNeverFatal ==
  (PastAuth /\ credsPath = "") =>
    /\ Count("isAuthenticated") = 1
    /\ Count("authenticateGcloudSDK") = 0
    /\ NotAuthenticatedWarnings =
         (IF CallsOf("isAuthenticated")[1].res = "true" THEN 0 ELSE 1)
    /\ failure \in { "", "setProject" }
    /\ Count("core.setFailed") = (IF failure = "" THEN 0 ELSE 1)
    /\ projectId # << >> /\ pc \in { "output", "done" } => Count("setProject") = 1
    /\ Completed => Count("core.setOutput") = 1

C6_Witness ==
  /\ credsPath = ""
  /\ Completed
  /\ Count("isAuthenticated") = 1
  /\ ~CallsOf("isAuthenticated")[1].ok
  /\ NotAuthenticatedWarnings = 1
  /\ Count("setProject") = 1

\* C7: when the entitlement check is answered with 403 the process exits at
\* once with status 1: only the request, the logged error and the exit have
\* happened; nothing is exported, no input is read, no provisioner or broker
\* operation is invoked, no output is set and setFailed is not called.
C7_RejectionExitsBeforeAnythingElse ==
  (calls # << >> /\ calls[1].res = "403") =>
    /\ pc = "exited"
    /\ exitCode = 1
    /\ calls = << Call("axios.get", << >>, "403", FALSE),
                  Void("core.error", << "subscription-not-valid" >>),
                  Void("process.exit", << 1 >>) >>
    /\ jobEnv = { }
    /\ processEnv = { }
    /\ searchPath = << >>
    /\ outputs = << >>
    /\ failure = ""

C7_Witness ==
  /\ pc = "exited"
  /\ calls[1].res = "403"
  /\ inputs.project_id # << >>
  /\ credsPath # ""

\* The entries the claim C8 expects: the comma-separated pieces, trimmed, in
\* order, without the empty ones.
NonEmptyEntries(s) ==
  SelectSeq(MapTrim(Split(s, ",")), LAMBDA e : e # << >>)

\* C8: for a non-empty install_components input, once the component step has
\* run, installComponent was invoked in exactly one call whose argument is the
\* trimmed comma-separated entries in order, with no empty entry.
C8_ComponentsBatchedWithoutEmptyEntries ==
  (PastComponents /\ GetInput("install_components") # << >>) =>
    /\ Count("installComponent") = 1
    /\ CallsOf("installComponent")[1].args =
         << NonEmptyEntries(inputs.install_components) >>

\* C9: with skip_install = true, exactly one 'ignoring version' warning is
\* emitted when a version other than "latest" was given and none when the
\* version is "latest" or absent; with skip_install = false it is never
\* emitted.
C9_IgnoredVersionWarning ==
  /\ IgnoredVersionWarnings <= 1
  /\ ~SkipInstallInput => IgnoredVersionWarnings = 0
  /\ (PastBranch /\ SkipInstallInput) =>
       IgnoredVersionWarnings =
         (IF VersionInput \in { Undefined, Latest } THEN 0 ELSE 1)

C9_Witness ==
  /\ SkipInstallInput
  /\ Completed
  /\ VersionInput = Pinned
  /\ IgnoredVersionWarnings = 1

\* C10: with skip_install = false and no version given, the cache probe, and
\* install on a miss, are given "> 0.0.0" and bestVersion is not invoked; any
\* other version that is not "latest" is given to them as it is.
C10_UnsetVersionIsAnyVersion ==
  (PastInstall /\ InstallInput /\ VersionInput # Latest) =>
    LET expected == IF VersionInput = Undefined THEN AnyVersion ELSE VersionInput
    IN  /\ Count("bestVersion") = 0
        /\ Count("toolCache.find") = 1
        /\ CallsOf("toolCache.find")[1].args = << "gcloud", expected >>
        /\ \A i \in DOMAIN calls :
             calls[i].op = "installGcloudSDK" => calls[i].args[1] = expected

C10_Witness ==
  /\ InstallInput
  /\ VersionInput = Undefined
  /\ Completed
  /\ Count("installGcloudSDK") = 1
  /\ CallsOf("installGcloudSDK")[1].args[1] = AnyVersion

-----------------------------------------------------------------------------
(* Claims about the whole run *)

ProjectInput == GetInput("project_id")

ComponentsInput == GetInput("install_components")

\* the project step has run (and may have failed)
PastProject ==
  \/ pc = "output"
  \/ pc = "done" /\ failure \in { "", "setProject" }

\* What C11 asks once the run has ended: setProject was invoked exactly once
\* with the supplied id, or never when no id was supplied.
ProjectConfigured ==
  /\ Count("setProject") = (IF ProjectInput # << >> THEN 1 ELSE 0)
  /\ \A i \in DOMAIN calls :
       calls[i].op = "setProject" => calls[i].args = << ProjectInput >>

\* C11 as stated: with a non-empty project_id setProject is invoked exactly
\* once with that id for every outcome of the authentication step, and never
\* with an empty project_id.
C11_ProjectSetForEveryAuthenticationOutcome ==
  (PastAuth /\ pc = "done") => ProjectConfigured

\* C11 as amended: for every outcome of the authentication step other than a
\* failed authenticateGcloudSDK (credentials file accepted, already
\* authenticated, not authenticated, status check failed), setProject is
\* invoked exactly once with a non-empty project_id, and never with an empty
\* one.
C11_ProjectSetUnlessAuthenticationFailed ==
  /\ PastProject => ProjectConfigured
  /\ ProjectInput = << >> => Count("setProject") = 0
  /\ Count("setProject") <= 1

C11_Witness ==
  /\ Completed
  /\ credsPath = ""
  /\ NotAuthenticatedWarnings = 1
  /\ Count("setProject") = 1
  /\ CallsOf("setProject")[1].args = << << "p" >> >>

MetricsVariables ==
  { << "CLOUDSDK_METRICS_ENVIRONMENT", "github-actions-setup-gcloud" >>,
    << "CLOUDSDK_METRICS_ENVIRONMENT_VERSION", AppVersion >> }

PromptsVariable == << "CLOUDSDK_CORE_DISABLE_PROMPTS", "1" >>

\* the environment step has run
PastExport == pc \notin { "validateSubscription", "export", "exited" }

\* indices in calls at which variable kv was set with operation op
SetAt(op, kv) ==
  { i \in DOMAIN calls : calls[i].op = op /\ calls[i].args = kv }

FirstInputRead ==
  IF Count("core.getInput") = 0 THEN Len(calls) + 1
  ELSE CHOOSE i \in DOMAIN calls :
         /\ calls[i].op = "core.getInput"
         /\ \A j \in 1 .. (i - 1) : calls[j].op # "core.getInput"

\* C12 as stated: in every run not ended by a 403, all three variables are
\* published to the job-wide environment.
C12_AllThreeVariablesJobWide ==
  PastExport => (MetricsVariables \cup { PromptsVariable }) \subseteq jobEnv

\* C12 as amended: in every run not ended by a 403, the two metrics variables
\* are published to the job-wide environment and CLOUDSDK_CORE_DISABLE_PROMPTS
\* is set in the environment of the current process only, each exactly once
\* and before any step input is read, also when the run ends in a reported
\* failure.
C12_MetricsJobWidePromptsProcessOnly ==
  /\ PastExport =>
       /\ jobEnv = MetricsVariables
       /\ processEnv = { PromptsVariable }
       /\ \A kv \in MetricsVariables :
            /\ Cardinality(SetAt("core.exportVariable", kv)) = 1
            /\ \A i \in SetAt("core.exportVariable", kv) : i < FirstInputRead
       /\ Cardinality(SetAt("process.env", PromptsVariable)) = 1
       /\ \A i \in SetAt("process.env", PromptsVariable) : i < FirstInputRead
       /\ Count("core.exportVariable") = 2
       /\ Count("process.env") = 1
  /\ ~PastExport =>
       /\ Count("core.getInput") = 0
       /\ jobEnv = { }
       /\ processEnv = { }

C12_Witness ==
  /\ pc = "done"
  /\ failure = "setProject"
  /\ jobEnv = MetricsVariables
  /\ processEnv = { PromptsVariable }

BodyOperations ==
  { "bestVersion", "installGcloudSDK", "installComponent",
    "authenticateGcloudSDK", "setProject" }

\* an input failed to parse
ParseErrorRaised ==
  /\ pc \notin { "validateSubscription", "export", "inputs", "exited" }
  /\ ~InputsParse

RaisedAt ==
  { i \in DOMAIN calls : calls[i].op \in BodyOperations /\ ~calls[i].ok }

ErrorsRaised == Cardinality(RaisedAt) + (IF ParseErrorRaised THEN 1 ELSE 0)

\* C14: an error raised by bestVersion, installGcloudSDK, installComponent,
\* authenticateGcloudSDK, setProject or the input parsing is reported with
\* exactly one setFailed, which directly follows the failing operation and is
\* the last operation of the run; no 'version' output is set and process.exit
\* is not called.  setFailed is invoked in no other run.
C14_ErrorsReportedOnceAndStopTheRun ==
  /\ Count("core.setFailed") = ErrorsRaised
  /\ ErrorsRaised <= 1
  /\ ErrorsRaised = 1 =>
       /\ pc = "done"
       /\ failure # ""
       /\ calls[Len(calls)].op = "core.setFailed"
       /\ \/ RaisedAt = { Len(calls) - 1 }
          \/ ParseErrorRaised /\ calls[Len(calls) - 1].op = "core.getInput"
       /\ "version" \notin DOMAIN outputs
       /\ Count("core.setOutput") = 0
       /\ Count("process.exit") = 0
       /\ exitCode = -1

C14_Witness ==
  /\ pc = "done"
  /\ failure = "installGcloudSDK"
  /\ components # << >>
  /\ projectId # << >>
  /\ Count("core.setFailed") = 1

\* the phase of the sequence an operation belongs to
PhaseOf(c) ==
  CASE c.op \in { "axios.get", "core.error", "process.exit" } -> 1
    [] c.op = "core.info" /\ c.args = << "api-not-reachable" >> -> 1
    [] c.op \in { "core.exportVariable", "process.env", "isPinnedToHead" } -> 2
    [] c.op = "core.warning" /\ c.args = << "pinned-to-head" >> -> 2
    [] c.op \in { "core.getInput", "bestVersion" } -> 3
    [] c.op = "core.info" /\ c.args = << "skipping-installation" >> -> 3
    [] c.op = "core.warning"
         /\ c.args \in { << "ignoring-version" >>, << "components-may-fail" >> } -> 3
    [] c.op = "core.debug"
         /\ c.args \in { << "version-unset" >>, << "resolving-latest" >>,
                         << "resolved-latest" >> } -> 3
    [] c.op \in { "toolCache.find", "core.addPath", "installGcloudSDK" } -> 4
    [] c.op = "core.debug" /\ c.args = << "no-matching-version" >> -> 4
    [] c.op = "installComponent" -> 5
    [] c.op \in { "authenticateGcloudSDK", "isAuthenticated" } -> 6
    [] c.op = "core.info" /\ c.args = << "authenticated" >> -> 6
    [] c.op = "core.warning" /\ c.args = << "not-authenticated" >> -> 6
    [] c.op = "setProject" -> 7
    [] c.op = "core.info" /\ c.args = << "project-set" >> -> 7
    [] c.op = "core.setOutput" -> 8
    [] c.op = "core.setFailed" -> 9

\* C15: the operations of a run occur in the order entitlement check,
\* environment exports, input reading and entry gate / version resolution,
\* cache probe / install, components, authentication, project, output: no
\* operation of a later phase precedes one of an earlier phase.
C15_PhasesInOrder ==
  \A i, j \in DOMAIN calls : i < j => PhaseOf(calls[i]) <= PhaseOf(calls[j])

C15_Witness ==
  /\ Completed
  /\ Count("bestVersion") = 1
  /\ Count("installGcloudSDK") = 1
  /\ Count("installComponent") = 1
  /\ Count("authenticateGcloudSDK") = 1
  /\ Count("setProject") = 1
  /\ Count("core.setOutput") = 1

\* C16: once the component step has run, installComponent was invoked exactly
\* once when install_components is non-empty and never when it is empty, with
\* skip_install true as well as false.
C16_ComponentsIndependentOfSkip ==
  /\ PastComponents =>
       Count("installComponent") = (IF ComponentsInput # << >> THEN 1 ELSE 0)
  /\ ComponentsInput = << >> => Count("installComponent") = 0

C16_Witness ==
  /\ SkipInstallInput
  /\ Completed
  /\ Count("installComponent") = 1
  /\ Logged("core.warning", "components-may-fail") = 1

\* C17: in a run with skip_install = false that completes without failure,
\* the 'version' output is exactly the value that was passed to the cache
\* probe, and to install if install was invoked.
C17_OutputIsTheProbedVersion ==
  (Completed /\ InstallInput) =>
    /\ Count("toolCache.find") = 1
    /\ Count("core.setOutput") = 1
    /\ "version" \in DOMAIN outputs
    /\ outputs["version"] = CallsOf("toolCache.find")[1].args[2]
    /\ CallsOf("core.setOutput")[1].args =
         << "version", CallsOf("toolCache.find")[1].args[2] >>
    /\ \A i \in DOMAIN calls :
         calls[i].op = "installGcloudSDK" =>
           calls[i].args[1] = outputs["version"]

C17_Witness ==
  /\ Completed
  /\ InstallInput
  /\ VersionInput = Latest
  /\ Count("core.addPath") = 1
  /\ outputs["version"] \in ResolvedVersions

RetryFreeOperations ==
  { "axios.get", "bestVersion", "toolCache.find", "installGcloudSDK",
    "installComponent", "authenticateGcloudSDK", "isAuthenticated",
    "setProject" }

\* C18: in a single run each of the entitlement check, bestVersion,
\* toolCache.find, installGcloudSDK, installComponent, authenticateGcloudSDK,
\* isAuthenticated and setProject is invoked at most once, also after it has
\* failed.
C18_NoOperationRetried ==
  \A op \in RetryFreeOperations : Count(op) <= 1

C18_Witness ==
  /\ pc = "done"
  /\ failure = "installComponent"
  /\ Count("installComponent") = 1
  /\ ~CallsOf("installComponent")[1].ok

ExitedOn403 ==
  /\ pc = "exited"
  /\ exitCode = 1
  /\ calls[1].res = "403"
  /\ Count("core.setOutput") = 0
  /\ Count("core.setFailed") = 0
  /\ outputs = << >>

OutputSet ==
  /\ pc = "done"
  /\ exitCode = -1
  /\ Count("core.setOutput") = 1
  /\ "version" \in DOMAIN outputs
  /\ Count("core.setFailed") = 0
  /\ failure = ""

FailureReported ==
  /\ pc = "done"
  /\ exitCode = -1
  /\ Count("core.setFailed") = 1
  /\ failure # ""
  /\ Count("core.setOutput") = 0
  /\ "version" \notin DOMAIN outputs

Ended == pc \in { "done", "exited" }

\* every requested install, component, authentication and project operation
\* was invoked and returned
RequestedOperationsSucceeded ==
  /\ \A i \in DOMAIN calls : calls[i].op \in BodyOperations => calls[i].ok
  /\ InstallInput =>
       /\ Count("toolCache.find") = 1
       /\ CallsOf("toolCache.find")[1].res = "" => Count("installGcloudSDK") = 1
  /\ ComponentsInput # << >> => Count("installComponent") = 1
  /\ credsPath # "" => Count("authenticateGcloudSDK") = 1
  /\ ProjectInput # << >> => Count("setProject") = 1

\* C20: a run ends in exactly one of: exit on a 403, 'version' output set with
\* no reported failure, failure reported with no 'version' output; setOutput
\* and setFailed are never both invoked, and setOutput is invoked only after
\* every requested install, component, authentication and project operation
\* has succeeded.
C20_ExactlyOneTerminalOutcome ==
  /\ ~(Count("core.setOutput") > 0 /\ Count("core.setFailed") > 0)
  /\ Ended =>
       \/ ExitedOn403 /\ ~OutputSet /\ ~FailureReported
       \/ ~ExitedOn403 /\ OutputSet /\ ~FailureReported
       \/ ~ExitedOn403 /\ ~OutputSet /\ FailureReported
  /\ ~Ended =>
       /\ ENABLED Next
       /\ Count("core.setOutput") = 0
       /\ Count("core.setFailed") = 0
  /\ Count("core.setOutput") > 0 =>
       /\ RequestedOperationsSucceeded
       /\ calls[Len(calls)].op = "core.setOutput"

C20_Witness ==
  /\ OutputSet
  /\ InstallInput
  /\ Count("installGcloudSDK") = 1
  /\ Count("installComponent") = 1
  /\ Count("authenticateGcloudSDK") = 1
  /\ Count("setProject") = 1
  /\ VersionInput = Pinned

-----------------------------------------------------------------------------
(* Claims that compare two runs *)

Prior == previous[1]

BothEnded == Len(previous) = 1 /\ pc = "done"

SameCall(a, b) == a.op = b.op /\ a.args = b.args

SameAnswer(a, b) == a.ok = b.ok /\ a.res = b.res

\* Two sequences of operations agree when they are the same operations with
\* the same arguments up to the first operation that a collaborator answered
\* differently (after which the runs may differ), and are of the same length
\* when no answer differs.
RECURSIVE Agree(_, _)
Agree(t, u) ==
  IF Len(t) = 0 \/ Len(u) = 0 THEN Len(t) = Len(u)
  ELSE IF ~SameCall(Head(t), Head(u)) THEN FALSE
  ELSE IF ~SameAnswer(Head(t), Head(u)) THEN TRUE
  ELSE Agree(Tail(t), Tail(u))

RECURSIVE Same(_, _)
Same(t, u) ==
  IF Len(t) = 0 \/ Len(u) = 0 THEN Len(t) = Len(u)
  ELSE /\ SameCall(Head(t), Head(u))
       /\ SameAnswer(Head(t), Head(u))
       /\ Same(Tail(t), Tail(u))

CheckSucceeded(t) == Len(t) > 0 /\ t[1].res = "200"

CheckFailed(t) == Len(t) > 0 /\ t[1].res \in { "500", "timeout" }

\* the operations of a run without the entitlement check and its log line
AfterCheck(t) ==
  SelectSeq(t, LAMBDA c :
    /\ c.op # "axios.get"
    /\ c.op = "core.info" => c.args # << "api-not-reachable" >>)

\* C13: an entitlement check that fails with anything but a 403 adds one
\* informational log line and nothing else: the process does not exit, and a
\* run with the same inputs whose check succeeded performs the same
\* operations (as long as the collaborators answer the same) and, when it
\* does, reaches the same terminal outcome.
C13_OtherCheckFailuresAreNotFatal ==
  /\ CheckFailed(calls) =>
       /\ pc # "exited"
       /\ exitCode = -1
       /\ Len(calls) >= 2
       /\ calls[2] = Void("core.info", << "api-not-reachable" >>)
       /\ Logged("core.info", "api-not-reachable") = 1
       /\ Count("core.error") = 0
       /\ Count("process.exit") = 0
  /\ CheckSucceeded(calls) => Logged("core.info", "api-not-reachable") = 0
  /\ (BothEnded /\ inputs = Prior.inputs
        /\ CheckSucceeded(Prior.calls) /\ CheckFailed(calls)) =>
       /\ Agree(AfterCheck(Prior.calls), AfterCheck(calls))
       /\ Same(AfterCheck(Prior.calls), AfterCheck(calls)) =>
            /\ outputs = Prior.outputs
            /\ failure = Prior.failure
            /\ searchPath = Prior.searchPath

C13_Witness ==
  /\ BothEnded
  /\ inputs = Prior.inputs
  /\ CheckSucceeded(Prior.calls)
  /\ CheckFailed(calls)
  /\ Same(AfterCheck(Prior.calls), AfterCheck(calls))
  /\ Completed
  /\ Count("installGcloudSDK") = 1
  /\ Count("setProject") = 1

\* the authentication and project operations of a run and the warning of the
\* authentication step
AuthenticationOperations(t) ==
  SelectSeq(t, LAMBDA c :
    \/ c.op \in { "authenticateGcloudSDK", "isAuthenticated", "setProject" }
    \/ c.op = "core.warning" /\ c.args = << "not-authenticated" >>)

\* the run got to the authentication step
ReachedAuthentication(f) == f \in { "", "authenticateGcloudSDK", "setProject" }

InstallationOutcome(t) ==
  LET probes == SelectSeq(t, LAMBDA c : c.op = "toolCache.find") IN
  IF Len(probes) = 0 THEN "SKIPPED"
  ELSE IF probes[1].res # "" THEN "CACHED"
  ELSE "INSTALLED"

\* C19: two runs that reach the authentication step with the same credentials
\* variable and project_id, whatever their installation outcomes (cached,
\* installed, skipped), invoke the same authentication and project operations
\* with the same arguments and emit the same warning, as long as the
\* Credential Broker answers the same.
C19_AuthenticationIndependentOfInstallation ==
  (BothEnded /\ ReachedAuthentication(failure)
     /\ ReachedAuthentication(Prior.failure)
     /\ inputs.project_id = Prior.inputs.project_id) =>
    Agree(AuthenticationOperations(Prior.calls), AuthenticationOperations(calls))

C19_Witness ==
  /\ BothEnded
  /\ Completed
  /\ Prior.failure = ""
  /\ InstallationOutcome(Prior.calls) = "SKIPPED"
  /\ InstallationOutcome(calls) = "INSTALLED"
  /\ Same(AuthenticationOperations(Prior.calls), AuthenticationOperations(calls))
  /\ NotAuthenticatedWarnings = 1
  /\ Count("setProject") = 1

====
